---- MODULE Spec2Model ----
(***************************************************************************)
(* Model of scripts/together-upload.py: a single linear script that checks *)
(* an environment variable, its arguments and the existence of a local     *)
(* file, performs one SDK upload call and prints one JSON object.          *)
(*                                                                         *)
(* Python strings are tuples of one-character strings, so that slicing     *)
(* (os.path.basename) and concatenation (f-strings) are computed.  A       *)
(* Python dict / JSON object is a record.  sys.argv is a tuple whose first *)
(* element is the script name; Argv(i) is Python's sys.argv[i].            *)
(***************************************************************************)
EXTENDS Integers, Sequences, FiniteSets, TLC

VARIABLES
    environ,      \* os.environ: function from the names that are set to their values
    argv,         \* sys.argv
    fs,           \* the file system at the path argument: path -> what os.stat answers there
    pc,           \* the line the interpreter is at, or a terminal position
    filepath,     \* script variable, line 21
    purpose,      \* script variable, line 22
    result,       \* script variable, line 35
    output,       \* script variable, line 37
    exc,          \* the exception raised inside the try block, if any
    stdout,       \* the objects printed so far, in order
    exit_status,  \* the process exit status once terminated, Running before
    events,       \* history: the checks passed and the SDK steps begun, in order
    uploads       \* history: the arguments of every client.files.upload call

vars ==
    <<environ, argv, fs, pc, filepath, purpose, result, output, exc, stdout,
      exit_status, events, uploads>>

---------------------------------------------------------------------------
(* Bounds of the model *)

MaxPathLen ==
    5

MaxSize ==
    1

MaxArgc ==
    4

\* the largest error number os.stat is taken to fail with
MaxErrno ==
    133

---------------------------------------------------------------------------
(* String literals of the script *)

KEY_NOT_SET ==
    <<"T", "O", "G", "E", "T", "H", "E", "R", "_", "A", "P", "I", "_", "K", "E", "Y", " ", "n", "o", "t", " ", "s", "e", "t">>

USAGE ==
    <<"U", "s", "a", "g", "e", ":", " ", "p", "y", "t", "h", "o", "n", " ", "t", "o", "g", "e", "t", "h", "e", "r", "-", "u", "p", "l", "o", "a", "d", ".", "p", "y", " ", "<", "f", "i", "l", "e", "p", "a", "t", "h", ">", " ", "[", "p", "u", "r", "p", "o", "s", "e", "]">>

FILE_NOT_FOUND ==
    <<"F", "i", "l", "e", " ", "n", "o", "t", " ", "f", "o", "u", "n", "d", ":", " ">>

FINE_TUNE ==
    <<"f", "i", "n", "e", "-", "t", "u", "n", "e">>

\* The messages of the C library for the error numbers 1, 2, ..., in order
\* (os.strerror); a number it has no name for is "Unknown error <number>".
STRERROR ==
    <<<<"O", "p", "e", "r", "a", "t", "i", "o", "n", " ", "n", "o", "t", " ", "p", "e", "r", "m", "i", "t", "t", "e", "d">>,
      <<"N", "o", " ", "s", "u", "c", "h", " ", "f", "i", "l", "e", " ", "o", "r", " ", "d", "i", "r", "e", "c", "t", "o", "r", "y">>,
      <<"N", "o", " ", "s", "u", "c", "h", " ", "p", "r", "o", "c", "e", "s", "s">>,
      <<"I", "n", "t", "e", "r", "r", "u", "p", "t", "e", "d", " ", "s", "y", "s", "t", "e", "m", " ", "c", "a", "l", "l">>,
      <<"I", "n", "p", "u", "t", "/", "o", "u", "t", "p", "u", "t", " ", "e", "r", "r", "o", "r">>,
      <<"N", "o", " ", "s", "u", "c", "h", " ", "d", "e", "v", "i", "c", "e", " ", "o", "r", " ", "a", "d", "d", "r", "e", "s", "s">>,
      <<"A", "r", "g", "u", "m", "e", "n", "t", " ", "l", "i", "s", "t", " ", "t", "o", "o", " ", "l", "o", "n", "g">>,
      <<"E", "x", "e", "c", " ", "f", "o", "r", "m", "a", "t", " ", "e", "r", "r", "o", "r">>,
      <<"B", "a", "d", " ", "f", "i", "l", "e", " ", "d", "e", "s", "c", "r", "i", "p", "t", "o", "r">>,
      <<"N", "o", " ", "c", "h", "i", "l", "d", " ", "p", "r", "o", "c", "e", "s", "s", "e", "s">>,
      <<"R", "e", "s", "o", "u", "r", "c", "e", " ", "t", "e", "m", "p", "o", "r", "a", "r", "i", "l", "y", " ", "u", "n", "a", "v", "a", "i", "l", "a", "b", "l", "e">>,
      <<"C", "a", "n", "n", "o", "t", " ", "a", "l", "l", "o", "c", "a", "t", "e", " ", "m", "e", "m", "o", "r", "y">>,
      <<"P", "e", "r", "m", "i", "s", "s", "i", "o", "n", " ", "d", "e", "n", "i", "e", "d">>,
      <<"B", "a", "d", " ", "a", "d", "d", "r", "e", "s", "s">>,
      <<"B", "l", "o", "c", "k", " ", "d", "e", "v", "i", "c", "e", " ", "r", "e", "q", "u", "i", "r", "e", "d">>,
      <<"D", "e", "v", "i", "c", "e", " ", "o", "r", " ", "r", "e", "s", "o", "u", "r", "c", "e", " ", "b", "u", "s", "y">>,
      <<"F", "i", "l", "e", " ", "e", "x", "i", "s", "t", "s">>,
      <<"I", "n", "v", "a", "l", "i", "d", " ", "c", "r", "o", "s", "s", "-", "d", "e", "v", "i", "c", "e", " ", "l", "i", "n", "k">>,
      <<"N", "o", " ", "s", "u", "c", "h", " ", "d", "e", "v", "i", "c", "e">>,
      <<"N", "o", "t", " ", "a", " ", "d", "i", "r", "e", "c", "t", "o", "r", "y">>,
      <<"I", "s", " ", "a", " ", "d", "i", "r", "e", "c", "t", "o", "r", "y">>,
      <<"I", "n", "v", "a", "l", "i", "d", " ", "a", "r", "g", "u", "m", "e", "n", "t">>,
      <<"T", "o", "o", " ", "m", "a", "n", "y", " ", "o", "p", "e", "n", " ", "f", "i", "l", "e", "s", " ", "i", "n", " ", "s", "y", "s", "t", "e", "m">>,
      <<"T", "o", "o", " ", "m", "a", "n", "y", " ", "o", "p", "e", "n", " ", "f", "i", "l", "e", "s">>,
      <<"I", "n", "a", "p", "p", "r", "o", "p", "r", "i", "a", "t", "e", " ", "i", "o", "c", "t", "l", " ", "f", "o", "r", " ", "d", "e", "v", "i", "c", "e">>,
      <<"T", "e", "x", "t", " ", "f", "i", "l", "e", " ", "b", "u", "s", "y">>,
      <<"F", "i", "l", "e", " ", "t", "o", "o", " ", "l", "a", "r", "g", "e">>,
      <<"N", "o", " ", "s", "p", "a", "c", "e", " ", "l", "e", "f", "t", " ", "o", "n", " ", "d", "e", "v", "i", "c", "e">>,
      <<"I", "l", "l", "e", "g", "a", "l", " ", "s", "e", "e", "k">>,
      <<"R", "e", "a", "d", "-", "o", "n", "l", "y", " ", "f", "i", "l", "e", " ", "s", "y", "s", "t", "e", "m">>,
      <<"T", "o", "o", " ", "m", "a", "n", "y", " ", "l", "i", "n", "k", "s">>,
      <<"B", "r", "o", "k", "e", "n", " ", "p", "i", "p", "e">>,
      <<"N", "u", "m", "e", "r", "i", "c", "a", "l", " ", "a", "r", "g", "u", "m", "e", "n", "t", " ", "o", "u", "t", " ", "o", "f", " ", "d", "o", "m", "a", "i", "n">>,
      <<"N", "u", "m", "e", "r", "i", "c", "a", "l", " ", "r", "e", "s", "u", "l", "t", " ", "o", "u", "t", " ", "o", "f", " ", "r", "a", "n", "g", "e">>,
      <<"R", "e", "s", "o", "u", "r", "c", "e", " ", "d", "e", "a", "d", "l", "o", "c", "k", " ", "a", "v", "o", "i", "d", "e", "d">>,
      <<"F", "i", "l", "e", " ", "n", "a", "m", "e", " ", "t", "o", "o", " ", "l", "o", "n", "g">>,
      <<"N", "o", " ", "l", "o", "c", "k", "s", " ", "a", "v", "a", "i", "l", "a", "b", "l", "e">>,
      <<"F", "u", "n", "c", "t", "i", "o", "n", " ", "n", "o", "t", " ", "i", "m", "p", "l", "e", "m", "e", "n", "t", "e", "d">>,
      <<"D", "i", "r", "e", "c", "t", "o", "r", "y", " ", "n", "o", "t", " ", "e", "m", "p", "t", "y">>,
      <<"T", "o", "o", " ", "m", "a", "n", "y", " ", "l", "e", "v", "e", "l", "s", " ", "o", "f", " ", "s", "y", "m", "b", "o", "l", "i", "c", " ", "l", "i", "n", "k", "s">>,
      <<"U", "n", "k", "n", "o", "w", "n", " ", "e", "r", "r", "o", "r", " ", "4", "1">>,
      <<"N", "o", " ", "m", "e", "s", "s", "a", "g", "e", " ", "o", "f", " ", "d", "e", "s", "i", "r", "e", "d", " ", "t", "y", "p", "e">>,
      <<"I", "d", "e", "n", "t", "i", "f", "i", "e", "r", " ", "r", "e", "m", "o", "v", "e", "d">>,
      <<"C", "h", "a", "n", "n", "e", "l", " ", "n", "u", "m", "b", "e", "r", " ", "o", "u", "t", " ", "o", "f", " ", "r", "a", "n", "g", "e">>,
      <<"L", "e", "v", "e", "l", " ", "2", " ", "n", "o", "t", " ", "s", "y", "n", "c", "h", "r", "o", "n", "i", "z", "e", "d">>,
      <<"L", "e", "v", "e", "l", " ", "3", " ", "h", "a", "l", "t", "e", "d">>,
      <<"L", "e", "v", "e", "l", " ", "3", " ", "r", "e", "s", "e", "t">>,
      <<"L", "i", "n", "k", " ", "n", "u", "m", "b", "e", "r", " ", "o", "u", "t", " ", "o", "f", " ", "r", "a", "n", "g", "e">>,
      <<"P", "r", "o", "t", "o", "c", "o", "l", " ", "d", "r", "i", "v", "e", "r", " ", "n", "o", "t", " ", "a", "t", "t", "a", "c", "h", "e", "d">>,
      <<"N", "o", " ", "C", "S", "I", " ", "s", "t", "r", "u", "c", "t", "u", "r", "e", " ", "a", "v", "a", "i", "l", "a", "b", "l", "e">>,
      <<"L", "e", "v", "e", "l", " ", "2", " ", "h", "a", "l", "t", "e", "d">>,
      <<"I", "n", "v", "a", "l", "i", "d", " ", "e", "x", "c", "h", "a", "n", "g", "e">>,
      <<"I", "n", "v", "a", "l", "i", "d", " ", "r", "e", "q", "u", "e", "s", "t", " ", "d", "e", "s", "c", "r", "i", "p", "t", "o", "r">>,
      <<"E", "x", "c", "h", "a", "n", "g", "e", " ", "f", "u", "l", "l">>,
      <<"N", "o", " ", "a", "n", "o", "d", "e">>,
      <<"I", "n", "v", "a", "l", "i", "d", " ", "r", "e", "q", "u", "e", "s", "t", " ", "c", "o", "d", "e">>,
      <<"I", "n", "v", "a", "l", "i", "d", " ", "s", "l", "o", "t">>,
      <<"U", "n", "k", "n", "o", "w", "n", " ", "e", "r", "r", "o", "r", " ", "5", "8">>,
      <<"B", "a", "d", " ", "f", "o", "n", "t", " ", "f", "i", "l", "e", " ", "f", "o", "r", "m", "a", "t">>,
      <<"D", "e", "v", "i", "c", "e", " ", "n", "o", "t", " ", "a", " ", "s", "t", "r", "e", "a", "m">>,
      <<"N", "o", " ", "d", "a", "t", "a", " ", "a", "v", "a", "i", "l", "a", "b", "l", "e">>,
      <<"T", "i", "m", "e", "r", " ", "e", "x", "p", "i", "r", "e", "d">>,
      <<"O", "u", "t", " ", "o", "f", " ", "s", "t", "r", "e", "a", "m", "s", " ", "r", "e", "s", "o", "u", "r", "c", "e", "s">>,
      <<"M", "a", "c", "h", "i", "n", "e", " ", "i", "s", " ", "n", "o", "t", " ", "o", "n", " ", "t", "h", "e", " ", "n", "e", "t", "w", "o", "r", "k">>,
      <<"P", "a", "c", "k", "a", "g", "e", " ", "n", "o", "t", " ", "i", "n", "s", "t", "a", "l", "l", "e", "d">>,
      <<"O", "b", "j", "e", "c", "t", " ", "i", "s", " ", "r", "e", "m", "o", "t", "e">>,
      <<"L", "i", "n", "k", " ", "h", "a", "s", " ", "b", "e", "e", "n", " ", "s", "e", "v", "e", "r", "e", "d">>,
      <<"A", "d", "v", "e", "r", "t", "i", "s", "e", " ", "e", "r", "r", "o", "r">>,
      <<"S", "r", "m", "o", "u", "n", "t", " ", "e", "r", "r", "o", "r">>,
      <<"C", "o", "m", "m", "u", "n", "i", "c", "a", "t", "i", "o", "n", " ", "e", "r", "r", "o", "r", " ", "o", "n", " ", "s", "e", "n", "d">>,
      <<"P", "r", "o", "t", "o", "c", "o", "l", " ", "e", "r", "r", "o", "r">>,
      <<"M", "u", "l", "t", "i", "h", "o", "p", " ", "a", "t", "t", "e", "m", "p", "t", "e", "d">>,
      <<"R", "F", "S", " ", "s", "p", "e", "c", "i", "f", "i", "c", " ", "e", "r", "r", "o", "r">>,
      <<"B", "a", "d", " ", "m", "e", "s", "s", "a", "g", "e">>,
      <<"V", "a", "l", "u", "e", " ", "t", "o", "o", " ", "l", "a", "r", "g", "e", " ", "f", "o", "r", " ", "d", "e", "f", "i", "n", "e", "d", " ", "d", "a", "t", "a", " ", "t", "y", "p", "e">>,
      <<"N", "a", "m", "e", " ", "n", "o", "t", " ", "u", "n", "i", "q", "u", "e", " ", "o", "n", " ", "n", "e", "t", "w", "o", "r", "k">>,
      <<"F", "i", "l", "e", " ", "d", "e", "s", "c", "r", "i", "p", "t", "o", "r", " ", "i", "n", " ", "b", "a", "d", " ", "s", "t", "a", "t", "e">>,
      <<"R", "e", "m", "o", "t", "e", " ", "a", "d", "d", "r", "e", "s", "s", " ", "c", "h", "a", "n", "g", "e", "d">>,
      <<"C", "a", "n", " ", "n", "o", "t", " ", "a", "c", "c", "e", "s", "s", " ", "a", " ", "n", "e", "e", "d", "e", "d", " ", "s", "h", "a", "r", "e", "d", " ", "l", "i", "b", "r", "a", "r", "y">>,
      <<"A", "c", "c", "e", "s", "s", "i", "n", "g", " ", "a", " ", "c", "o", "r", "r", "u", "p", "t", "e", "d", " ", "s", "h", "a", "r", "e", "d", " ", "l", "i", "b", "r", "a", "r", "y">>,
      <<".", "l", "i", "b", " ", "s", "e", "c", "t", "i", "o", "n", " ", "i", "n", " ", "a", ".", "o", "u", "t", " ", "c", "o", "r", "r", "u", "p", "t", "e", "d">>,
      <<"A", "t", "t", "e", "m", "p", "t", "i", "n", "g", " ", "t", "o", " ", "l", "i", "n", "k", " ", "i", "n", " ", "t", "o", "o", " ", "m", "a", "n", "y", " ", "s", "h", "a", "r", "e", "d", " ", "l", "i", "b", "r", "a", "r", "i", "e", "s">>,
      <<"C", "a", "n", "n", "o", "t", " ", "e", "x", "e", "c", " ", "a", " ", "s", "h", "a", "r", "e", "d", " ", "l", "i", "b", "r", "a", "r", "y", " ", "d", "i", "r", "e", "c", "t", "l", "y">>,
      <<"I", "n", "v", "a", "l", "i", "d", " ", "o", "r", " ", "i", "n", "c", "o", "m", "p", "l", "e", "t", "e", " ", "m", "u", "l", "t", "i", "b", "y", "t", "e", " ", "o", "r", " ", "w", "i", "d", "e", " ", "c", "h", "a", "r", "a", "c", "t", "e", "r">>,
      <<"I", "n", "t", "e", "r", "r", "u", "p", "t", "e", "d", " ", "s", "y", "s", "t", "e", "m", " ", "c", "a", "l", "l", " ", "s", "h", "o", "u", "l", "d", " ", "b", "e", " ", "r", "e", "s", "t", "a", "r", "t", "e", "d">>,
      <<"S", "t", "r", "e", "a", "m", "s", " ", "p", "i", "p", "e", " ", "e", "r", "r", "o", "r">>,
      <<"T", "o", "o", " ", "m", "a", "n", "y", " ", "u", "s", "e", "r", "s">>,
      <<"S", "o", "c", "k", "e", "t", " ", "o", "p", "e", "r", "a", "t", "i", "o", "n", " ", "o", "n", " ", "n", "o", "n", "-", "s", "o", "c", "k", "e", "t">>,
      <<"D", "e", "s", "t", "i", "n", "a", "t", "i", "o", "n", " ", "a", "d", "d", "r", "e", "s", "s", " ", "r", "e", "q", "u", "i", "r", "e", "d">>,
      <<"M", "e", "s", "s", "a", "g", "e", " ", "t", "o", "o", " ", "l", "o", "n", "g">>,
      <<"P", "r", "o", "t", "o", "c", "o", "l", " ", "w", "r", "o", "n", "g", " ", "t", "y", "p", "e", " ", "f", "o", "r", " ", "s", "o", "c", "k", "e", "t">>,
      <<"P", "r", "o", "t", "o", "c", "o", "l", " ", "n", "o", "t", " ", "a", "v", "a", "i", "l", "a", "b", "l", "e">>,
      <<"P", "r", "o", "t", "o", "c", "o", "l", " ", "n", "o", "t", " ", "s", "u", "p", "p", "o", "r", "t", "e", "d">>,
      <<"S", "o", "c", "k", "e", "t", " ", "t", "y", "p", "e", " ", "n", "o", "t", " ", "s", "u", "p", "p", "o", "r", "t", "e", "d">>,
      <<"O", "p", "e", "r", "a", "t", "i", "o", "n", " ", "n", "o", "t", " ", "s", "u", "p", "p", "o", "r", "t", "e", "d">>,
      <<"P", "r", "o", "t", "o", "c", "o", "l", " ", "f", "a", "m", "i", "l", "y", " ", "n", "o", "t", " ", "s", "u", "p", "p", "o", "r", "t", "e", "d">>,
      <<"A", "d", "d", "r", "e", "s", "s", " ", "f", "a", "m", "i", "l", "y", " ", "n", "o", "t", " ", "s", "u", "p", "p", "o", "r", "t", "e", "d", " ", "b", "y", " ", "p", "r", "o", "t", "o", "c", "o", "l">>,
      <<"A", "d", "d", "r", "e", "s", "s", " ", "a", "l", "r", "e", "a", "d", "y", " ", "i", "n", " ", "u", "s", "e">>,
      <<"C", "a", "n", "n", "o", "t", " ", "a", "s", "s", "i", "g", "n", " ", "r", "e", "q", "u", "e", "s", "t", "e", "d", " ", "a", "d", "d", "r", "e", "s", "s">>,
      <<"N", "e", "t", "w", "o", "r", "k", " ", "i", "s", " ", "d", "o", "w", "n">>,
      <<"N", "e", "t", "w", "o", "r", "k", " ", "i", "s", " ", "u", "n", "r", "e", "a", "c", "h", "a", "b", "l", "e">>,
      <<"N", "e", "t", "w", "o", "r", "k", " ", "d", "r", "o", "p", "p", "e", "d", " ", "c", "o", "n", "n", "e", "c", "t", "i", "o", "n", " ", "o", "n", " ", "r", "e", "s", "e", "t">>,
      <<"S", "o", "f", "t", "w", "a", "r", "e", " ", "c", "a", "u", "s", "e", "d", " ", "c", "o", "n", "n", "e", "c", "t", "i", "o", "n", " ", "a", "b", "o", "r", "t">>,
      <<"C", "o", "n", "n", "e", "c", "t", "i", "o", "n", " ", "r", "e", "s", "e", "t", " ", "b", "y", " ", "p", "e", "e", "r">>,
      <<"N", "o", " ", "b", "u", "f", "f", "e", "r", " ", "s", "p", "a", "c", "e", " ", "a", "v", "a", "i", "l", "a", "b", "l", "e">>,
      <<"T", "r", "a", "n", "s", "p", "o", "r", "t", " ", "e", "n", "d", "p", "o", "i", "n", "t", " ", "i", "s", " ", "a", "l", "r", "e", "a", "d", "y", " ", "c", "o", "n", "n", "e", "c", "t", "e", "d">>,
      <<"T", "r", "a", "n", "s", "p", "o", "r", "t", " ", "e", "n", "d", "p", "o", "i", "n", "t", " ", "i", "s", " ", "n", "o", "t", " ", "c", "o", "n", "n", "e", "c", "t", "e", "d">>,
      <<"C", "a", "n", "n", "o", "t", " ", "s", "e", "n", "d", " ", "a", "f", "t", "e", "r", " ", "t", "r", "a", "n", "s", "p", "o", "r", "t", " ", "e", "n", "d", "p", "o", "i", "n", "t", " ", "s", "h", "u", "t", "d", "o", "w", "n">>,
      <<"T", "o", "o", " ", "m", "a", "n", "y", " ", "r", "e", "f", "e", "r", "e", "n", "c", "e", "s", ":", " ", "c", "a", "n", "n", "o", "t", " ", "s", "p", "l", "i", "c", "e">>,
      <<"C", "o", "n", "n", "e", "c", "t", "i", "o", "n", " ", "t", "i", "m", "e", "d", " ", "o", "u", "t">>,
      <<"C", "o", "n", "n", "e", "c", "t", "i", "o", "n", " ", "r", "e", "f", "u", "s", "e", "d">>,
      <<"H", "o", "s", "t", " ", "i", "s", " ", "d", "o", "w", "n">>,
      <<"N", "o", " ", "r", "o", "u", "t", "e", " ", "t", "o", " ", "h", "o", "s", "t">>,
      <<"O", "p", "e", "r", "a", "t", "i", "o", "n", " ", "a", "l", "r", "e", "a", "d", "y", " ", "i", "n", " ", "p", "r", "o", "g", "r", "e", "s", "s">>,
      <<"O", "p", "e", "r", "a", "t", "i", "o", "n", " ", "n", "o", "w", " ", "i", "n", " ", "p", "r", "o", "g", "r", "e", "s", "s">>,
      <<"S", "t", "a", "l", "e", " ", "f", "i", "l", "e", " ", "h", "a", "n", "d", "l", "e">>,
      <<"S", "t", "r", "u", "c", "t", "u", "r", "e", " ", "n", "e", "e", "d", "s", " ", "c", "l", "e", "a", "n", "i", "n", "g">>,
      <<"N", "o", "t", " ", "a", " ", "X", "E", "N", "I", "X", " ", "n", "a", "m", "e", "d", " ", "t", "y", "p", "e", " ", "f", "i", "l", "e">>,
      <<"N", "o", " ", "X", "E", "N", "I", "X", " ", "s", "e", "m", "a", "p", "h", "o", "r", "e", "s", " ", "a", "v", "a", "i", "l", "a", "b", "l", "e">>,
      <<"I", "s", " ", "a", " ", "n", "a", "m", "e", "d", " ", "t", "y", "p", "e", " ", "f", "i", "l", "e">>,
      <<"R", "e", "m", "o", "t", "e", " ", "I", "/", "O", " ", "e", "r", "r", "o", "r">>,
      <<"D", "i", "s", "k", " ", "q", "u", "o", "t", "a", " ", "e", "x", "c", "e", "e", "d", "e", "d">>,
      <<"N", "o", " ", "m", "e", "d", "i", "u", "m", " ", "f", "o", "u", "n", "d">>,
      <<"W", "r", "o", "n", "g", " ", "m", "e", "d", "i", "u", "m", " ", "t", "y", "p", "e">>,
      <<"O", "p", "e", "r", "a", "t", "i", "o", "n", " ", "c", "a", "n", "c", "e", "l", "e", "d">>,
      <<"R", "e", "q", "u", "i", "r", "e", "d", " ", "k", "e", "y", " ", "n", "o", "t", " ", "a", "v", "a", "i", "l", "a", "b", "l", "e">>,
      <<"K", "e", "y", " ", "h", "a", "s", " ", "e", "x", "p", "i", "r", "e", "d">>,
      <<"K", "e", "y", " ", "h", "a", "s", " ", "b", "e", "e", "n", " ", "r", "e", "v", "o", "k", "e", "d">>,
      <<"K", "e", "y", " ", "w", "a", "s", " ", "r", "e", "j", "e", "c", "t", "e", "d", " ", "b", "y", " ", "s", "e", "r", "v", "i", "c", "e">>,
      <<"O", "w", "n", "e", "r", " ", "d", "i", "e", "d">>,
      <<"S", "t", "a", "t", "e", " ", "n", "o", "t", " ", "r", "e", "c", "o", "v", "e", "r", "a", "b", "l", "e">>,
      <<"O", "p", "e", "r", "a", "t", "i", "o", "n", " ", "n", "o", "t", " ", "p", "o", "s", "s", "i", "b", "l", "e", " ", "d", "u", "e", " ", "t", "o", " ", "R", "F", "-", "k", "i", "l", "l">>,
      <<"M", "e", "m", "o", "r", "y", " ", "p", "a", "g", "e", " ", "h", "a", "s", " ", "h", "a", "r", "d", "w", "a", "r", "e", " ", "e", "r", "r", "o", "r">>>>

UNKNOWN_ERROR ==
    <<"U", "n", "k", "n", "o", "w", "n", " ", "e", "r", "r", "o", "r", " ">>

\* "[Errno ", which opens str() of an OSError that has a file name
ERRNO_OPEN ==
    <<"[", "E", "r", "r", "n", "o", " ">>

\* str() of the AttributeError for a missing attribute id, after the class name
NO_ATTRIBUTE_ID ==
    <<" ", "o", "b", "j", "e", "c", "t", " ", "h", "a", "s", " ", "n", "o", " ", "a", "t", "t", "r", "i", "b", "u", "t", "e", " ", "'", "i", "d", "'">>

SCRIPT ==
    <<"t", "o", "g", "e", "t", "h", "e", "r", "-", "u", "p", "l", "o", "a", "d", ".", "p", "y">>

---------------------------------------------------------------------------
(* Values that are not yet bound *)

Unbound ==
    <<"<unbound>">>

None ==
    [none |-> TRUE]

Running ==
    -1

---------------------------------------------------------------------------
(* Inputs *)

PathChars ==
    {"a", "/"}

RECURSIVE StringsUpTo(_, _)
StringsUpTo(chars, n) ==
    IF n = 0 THEN {<<>>}
    ELSE LET shorter == StringsUpTo(chars, n - 1)
         IN  shorter \cup {Append(s, c) : s \in shorter, c \in chars}

\* A path names a directory entry: no leading, trailing or doubled separator.
WellFormed(p) ==
    /\ Len(p) > 0 => p[1] # "/" /\ p[Len(p)] # "/"
    /\ \A i \in 1..(Len(p) - 1) : ~(p[i] = "/" /\ p[i + 1] = "/")

Paths ==
    {p \in StringsUpTo(PathChars, MaxPathLen) : WellFormed(p)}

GivenPurposes ==
    {<<>>, <<"e", "v", "a", "l">>}

ExtraArgs ==
    {<<"x">>}

ArgvOfLen(n) ==
    {a \in [1..n -> Paths \cup GivenPurposes \cup ExtraArgs \cup {SCRIPT}] :
        /\ a[1] = SCRIPT
        /\ n >= 2 => a[2] \in Paths
        /\ n >= 3 => a[3] \in GivenPurposes
        /\ \A i \in 4..n : a[i] \in ExtraArgs}

Argvs ==
    UNION {ArgvOfLen(n) : n \in 1..MaxArgc}

EnvValues ==
    {<<>>, <<"k">>}

Environs ==
    UNION {[names -> EnvValues] : names \in SUBSET {"TOGETHER_API_KEY", "TOGETHER_NO_BANNER"}}

Sizes ==
    0..MaxSize

\* What the file system holds at a path: an entry with a size, or nothing that
\* os.stat can reach (no entry, or no way to it).  The empty path never
\* resolves.
StatOutcomes(p) ==
    {[exists |-> FALSE, size |-> 0]}
    \cup (IF p # <<>> THEN {[exists |-> TRUE, size |-> n] : n \in Sizes} ELSE {})

\* The error number of the OSError when os.stat cannot reach an entry: the
\* kernel and the file system choose it (2 no such entry, 13 permission
\* denied, 20 not a directory, 36 name too long, 40 symbolic link loop, 116
\* stale handle, ...); any error number of the platform can come back.  The
\* empty path is refused with 2.
StatErrnos(p) ==
    IF p = <<>> THEN {2} ELSE 1..MaxErrno

\* What the upload call can return: an object of the SDK's response class,
\* with or without each of the attributes id, filename and bytes.
Ids ==
    {<<"f", "1">>, <<"f", "2">>}

RemoteFilename ==
    <<"r">>

RemoteBytes ==
    7

ResultClass ==
    <<"F", "i", "l", "e", "R", "e", "s", "p", "o", "n", "s", "e">>

ResultsWithId ==
    {[cls |-> ResultClass, id |-> i] : i \in Ids}
    \cup {[cls |-> ResultClass, id |-> i, filename |-> RemoteFilename] : i \in Ids}
    \cup {[cls |-> ResultClass, id |-> i, bytes |-> RemoteBytes] : i \in Ids}
    \cup {[cls |-> ResultClass, id |-> i, filename |-> RemoteFilename, bytes |-> RemoteBytes] : i \in Ids}

ResultsWithoutId ==
    {[cls |-> ResultClass],
     [cls |-> ResultClass, filename |-> RemoteFilename, bytes |-> RemoteBytes]}

Results ==
    ResultsWithId \cup ResultsWithoutId

\* What the SDK can raise: instances of Exception, and exceptions that derive
\* from BaseException only: SystemExit with its code, KeyboardInterrupt, and
\* others such as GeneratorExit.
ExcTexts ==
    {<<"E", "1">>, <<"E", "2">>}

Raisable ==
    {[cls |-> "Exception", text |-> t, code |-> 1] : t \in ExcTexts}
    \cup {[cls |-> "SystemExit", text |-> <<>>, code |-> c] : c \in {0, 1}}
    \cup {[cls |-> "KeyboardInterrupt", text |-> <<>>, code |-> 1]}
    \cup {[cls |-> "BaseException", text |-> <<"E", "1">>, code |-> 1]}

---------------------------------------------------------------------------
(* Library functions *)

Argv(i) ==
    argv[i + 1]

ArgvLen ==
    Len(argv)

\* variant: the check looks up the name the script sets itself
KeyPresent_WrongName ==
    "TOGETHER_NO_BANNER" \in DOMAIN environ

\* 'TOGETHER_API_KEY' not in os.environ
KeyPresent ==
    "TOGETHER_API_KEY" \in DOMAIN environ

\* os.stat
stat(p) ==
    fs[p]

\* os.path.exists: os.stat answers without an OSError
Exists(p) ==
    stat(p).exists

\* str.rfind('/') + 1, 1-based: the position after the last separator
RECURSIVE AfterLastSep(_, _)
AfterLastSep(p, i) ==
    IF i = 0 THEN 1
    ELSE IF p[i] = "/" THEN i + 1
    ELSE AfterLastSep(p, i - 1)

\* os.path.basename (posixpath)
basename(p) ==
    SubSeq(p, AfterLastSep(p, Len(p)), Len(p))

\* os.path.getsize, where os.stat answers; it raises elsewhere
getsize(p) ==
    stat(p).size

\* repr() of a str without quotes or escapes in it
repr(s) ==
    <<"'">> \o s \o <<"'">>

\* str() of a natural number
RECURSIVE Decimal(_)
Decimal(n) ==
    LET digit == <<"0", "1", "2", "3", "4", "5", "6", "7", "8", "9">>[(n % 10) + 1]
    IN  IF n < 10 THEN <<digit>> ELSE Append(Decimal(n \div 10), digit)

\* os.strerror
strerror(n) ==
    IF n \in 1..Len(STRERROR) THEN STRERROR[n] ELSE UNKNOWN_ERROR \o Decimal(n)

\* str() of an OSError with a file name: "[Errno <n>] <strerror>: <repr of the name>"
OSErrorText(n, p) ==
    ERRNO_OPEN \o Decimal(n) \o <<"]", " ">> \o strerror(n) \o <<":", " ">> \o repr(p)

\* the OSError raised by os.path.getsize with error number n (FileNotFoundError,
\* PermissionError, NotADirectoryError or plain OSError: all instances of
\* Exception)
StatError(p, n) ==
    [cls |-> "Exception", text |-> OSErrorText(n, p), code |-> 1]

\* the AttributeError raised by result.id
AttributeError(obj) ==
    [cls |-> "Exception", text |-> repr(obj.cls) \o NO_ATTRIBUTE_ID, code |-> 1]

\* variant: the local fallback replaces the attribute of the object
getattr_Default(obj, name, default) ==
    default

\* getattr(obj, name, default)
getattr(obj, name, default) ==
    IF name \in DOMAIN obj THEN obj[name] ELSE default

\* variant: the class name instead of the text of the exception
str_ClassName(e) ==
    <<"E", "x", "c", "e", "p", "t", "i", "o", "n">>

\* str(e)
str(e) ==
    e.text

\* except Exception
Caught(e) ==
    e.cls = "Exception"

\* The status a shell sees when e propagates out of the module: the code of a
\* SystemExit; 128 + SIGINT for KeyboardInterrupt, on which the interpreter
\* kills itself with that signal; 1 after the traceback of any other.
UncaughtStatus(e) ==
    IF e.cls = "SystemExit" THEN e.code
    ELSE IF e.cls = "KeyboardInterrupt" THEN 128 + 2
    ELSE 1

TerminalPcs ==
    {"exit15", "exit19", "exit26", "exit45", "end", "uncaught"}

Terminated ==
    pc \in TerminalPcs

---------------------------------------------------------------------------
(* Initial state: the process has started, nothing has run *)

Init ==
    /\ environ \in Environs
    /\ argv \in Argvs
    /\ fs \in IF Len(argv) >= 2
              THEN {[p \in {argv[2]} |-> o] : o \in StatOutcomes(argv[2])}
              ELSE {<<>>}
    /\ pc = "l13"
    /\ filepath = Unbound
    /\ purpose = Unbound
    /\ result = None
    /\ output = None
    /\ exc = None
    /\ stdout = <<>>
    /\ exit_status = Running
    /\ events = <<>>
    /\ uploads = <<>>

---------------------------------------------------------------------------
(* Steps of the script *)

\* variant: sys.exit() without a status
PrintAndExit_Status0(obj, at) ==
    /\ stdout' = Append(stdout, obj)
    /\ exit_status' = 0
    /\ pc' = at

\* print(json.dumps(obj)); sys.exit(1)
PrintAndExit(obj, at) ==
    /\ stdout' = Append(stdout, obj)
    /\ exit_status' = 1
    /\ pc' = at

\* an exception raised inside the try block
Raise(e) ==
    /\ exc' = e
    /\ IF Caught(e)
       THEN /\ pc' = "l44"
            /\ exit_status' = exit_status
       ELSE /\ pc' = "uncaught"
            /\ exit_status' = UncaughtStatus(e)

\* lines 13-15
CheckKey ==
    /\ pc = "l13"
    /\ IF ~KeyPresent
       THEN /\ PrintAndExit([error |-> KEY_NOT_SET], "exit15")
            /\ UNCHANGED events
       ELSE /\ pc' = "l17"
            /\ events' = Append(events, "key_ok")
            /\ UNCHANGED <<stdout, exit_status>>
    /\ UNCHANGED <<environ, argv, fs, filepath, purpose, result, output, exc, uploads>>

\* variant: the usage error exits without printing
CheckArgv_Silent ==
    /\ pc = "l17"
    /\ IF ArgvLen < 2
       THEN /\ exit_status' = 1
            /\ pc' = "exit19"
            /\ UNCHANGED <<stdout, events>>
       ELSE /\ pc' = "l21"
            /\ events' = Append(events, "argv_ok")
            /\ UNCHANGED <<stdout, exit_status>>
    /\ UNCHANGED <<environ, argv, fs, filepath, purpose, result, output, exc, uploads>>

\* lines 17-19
CheckArgv ==
    /\ pc = "l17"
    /\ IF ArgvLen < 2
       THEN /\ PrintAndExit([error |-> USAGE], "exit19")
            /\ UNCHANGED events
       ELSE /\ pc' = "l21"
            /\ events' = Append(events, "argv_ok")
            /\ UNCHANGED <<stdout, exit_status>>
    /\ UNCHANGED <<environ, argv, fs, filepath, purpose, result, output, exc, uploads>>

\* variant: purpose = sys.argv[2] or "fine-tune"
AssignArgs_Truthy ==
    /\ pc = "l21"
    /\ filepath' = Argv(1)
    /\ purpose' = IF ArgvLen > 2 /\ Argv(2) # <<>> THEN Argv(2) ELSE FINE_TUNE
    /\ pc' = "l24"
    /\ UNCHANGED <<environ, argv, fs, result, output, exc, stdout, exit_status, events, uploads>>

\* lines 21-22
AssignArgs ==
    /\ pc = "l21"
    /\ filepath' = Argv(1)
    /\ purpose' = IF ArgvLen > 2 THEN Argv(2) ELSE FINE_TUNE
    /\ pc' = "l24"
    /\ UNCHANGED <<environ, argv, fs, result, output, exc, stdout, exit_status, events, uploads>>

\* variant: a missing file is waited for
CheckFile_Poll ==
    /\ pc = "l24"
    /\ IF ~Exists(filepath)
       THEN UNCHANGED <<pc, events, stdout, exit_status>>
       ELSE /\ pc' = "l30"
            /\ events' = events \o <<"exists", "file_ok">>
            /\ UNCHANGED <<stdout, exit_status>>
    /\ UNCHANGED <<environ, argv, fs, filepath, purpose, result, output, exc, uploads>>

\* variant: the message names the base name, not the path
CheckFile_Basename ==
    /\ pc = "l24"
    /\ IF ~Exists(filepath)
       THEN /\ PrintAndExit([error |-> FILE_NOT_FOUND \o basename(filepath)], "exit26")
            /\ events' = Append(events, "exists")
       ELSE /\ pc' = "l30"
            /\ events' = events \o <<"exists", "file_ok">>
            /\ UNCHANGED <<stdout, exit_status>>
    /\ UNCHANGED <<environ, argv, fs, filepath, purpose, result, output, exc, uploads>>

\* lines 24-26
CheckFile ==
    /\ pc = "l24"
    /\ IF ~Exists(filepath)
       THEN /\ PrintAndExit([error |-> FILE_NOT_FOUND \o filepath], "exit26")
            /\ events' = Append(events, "exists")
       ELSE /\ pc' = "l30"
            /\ events' = events \o <<"exists", "file_ok">>
            /\ UNCHANGED <<stdout, exit_status>>
    /\ UNCHANGED <<environ, argv, fs, filepath, purpose, result, output, exc, uploads>>

\* line 30
SetNoBanner ==
    /\ pc = "l30"
    /\ environ' = [n \in DOMAIN environ \cup {"TOGETHER_NO_BANNER"} |->
                      IF n = "TOGETHER_NO_BANNER" THEN <<"1">> ELSE environ[n]]
    /\ pc' = "l32"
    /\ UNCHANGED <<argv, fs, filepath, purpose, result, output, exc, stdout, exit_status, events, uploads>>

\* line 32: from together import Together
ImportSdk ==
    /\ pc = "l32"
    /\ events' = Append(events, "import")
    /\ \/ /\ pc' = "l33"
          /\ UNCHANGED <<exc, exit_status>>
       \/ \E e \in Raisable : Raise(e)
    /\ UNCHANGED <<environ, argv, fs, filepath, purpose, result, output, stdout, uploads>>

\* line 33: client = Together()
Construct ==
    /\ pc = "l33"
    /\ events' = Append(events, "client")
    /\ \/ /\ pc' = "l35"
          /\ UNCHANGED <<exc, exit_status>>
       \/ \E e \in Raisable : Raise(e)
    /\ UNCHANGED <<environ, argv, fs, filepath, purpose, result, output, stdout, uploads>>

\* line 35: client.files.upload(filepath, purpose=purpose) is entered
UploadCall ==
    /\ pc = "l35"
    /\ uploads' = Append(uploads, [path |-> filepath, purpose |-> purpose])
    /\ events' = Append(events, "upload")
    /\ pc' = "l35_in_call"
    /\ UNCHANGED <<environ, argv, fs, filepath, purpose, result, output, exc, stdout, exit_status>>

\* line 35: the call returns
UploadReturn ==
    /\ pc = "l35_in_call"
    /\ \E r \in Results : result' = r
    /\ pc' = "l37"
    /\ UNCHANGED <<environ, argv, fs, filepath, purpose, output, exc, stdout, exit_status, events, uploads>>

\* variant: a failed upload is tried again
UploadRaise_Retry ==
    /\ pc = "l35_in_call"
    /\ pc' = "l35"
    /\ UNCHANGED <<environ, argv, fs, filepath, purpose, result, output, exc, stdout, exit_status, events, uploads>>

\* line 35: the call raises
UploadRaise ==
    /\ pc = "l35_in_call"
    /\ \E e \in Raisable : Raise(e)
    /\ UNCHANGED <<environ, argv, fs, filepath, purpose, result, output, stdout, events, uploads>>

\* lines 37-41: result.id is looked up first; the defaults of both getattr
\* calls are evaluated before the lookup, so os.path.getsize runs whether or
\* not the result has bytes
BuildOutput ==
    /\ pc = "l37"
    /\ IF "id" \notin DOMAIN result
       THEN /\ Raise(AttributeError(result))
            /\ UNCHANGED output
       ELSE IF ~Exists(filepath)
       THEN /\ \E n \in StatErrnos(filepath) : Raise(StatError(filepath, n))
            /\ UNCHANGED output
       ELSE /\ output' = [id |-> result.id,
                          filename |-> getattr(result, "filename", basename(filepath)),
                          bytes |-> getattr(result, "bytes", getsize(filepath))]
            /\ pc' = "l42"
            /\ UNCHANGED <<exc, exit_status>>
    /\ UNCHANGED <<environ, argv, fs, filepath, purpose, result, stdout, events, uploads>>

\* line 42, then the end of the module
PrintOutput ==
    /\ pc = "l42"
    /\ stdout' = Append(stdout, output)
    /\ exit_status' = 0
    /\ pc' = "end"
    /\ UNCHANGED <<environ, argv, fs, filepath, purpose, result, output, exc, events, uploads>>

\* lines 43-45
ExceptHandler ==
    /\ pc = "l44"
    /\ PrintAndExit([error |-> str(exc)], "exit45")
    /\ UNCHANGED <<environ, argv, fs, filepath, purpose, result, output, exc, events, uploads>>

---------------------------------------------------------------------------
(* Other processes acting on the file system while the script runs *)

\* the entry goes away, or the way to it does
FsRemove ==
    /\ ~Terminated
    /\ \E p \in DOMAIN fs :
          \E o \in StatOutcomes(p) :
             /\ ~o.exists
             /\ o # fs[p]
             /\ fs' = [fs EXCEPT ![p] = o]
    /\ UNCHANGED <<environ, argv, pc, filepath, purpose, result, output, exc, stdout, exit_status, events, uploads>>

\* the entry is created, or its size changes
FsWrite ==
    /\ ~Terminated
    /\ \E p \in DOMAIN fs :
          \E o \in StatOutcomes(p) :
             /\ o.exists
             /\ o # fs[p]
             /\ fs' = [fs EXCEPT ![p] = o]
    /\ UNCHANGED <<environ, argv, pc, filepath, purpose, result, output, exc, stdout, exit_status, events, uploads>>

---------------------------------------------------------------------------

ScriptStep ==
    \/ CheckKey
    \/ CheckArgv
    \/ AssignArgs
    \/ CheckFile
    \/ SetNoBanner
    \/ ImportSdk
    \/ Construct
    \/ UploadCall
    \/ UploadReturn
    \/ UploadRaise
    \/ BuildOutput
    \/ PrintOutput
    \/ ExceptHandler

Next ==
    \/ ScriptStep
    \/ FsRemove
    \/ FsWrite

Spec ==
    Init /\ [][Next]_vars

\* The interpreter always runs the next line, and the upload call answers.
FairSpec ==
    Spec /\ WF_vars(ScriptStep)

---------------------------------------------------------------------------
(* Properties *)

IsSuccessObject(obj) ==
    DOMAIN obj = {"id", "filename", "bytes"}

ExitedNonZero ==
    exit_status # Running /\ exit_status # 0

SdkEvents ==
    {"import", "client", "upload"}

Occurred(ev) ==
    \E i \in 1..Len(events) : events[i] = ev

\* C1: when TOGETHER_API_KEY is absent from the environment, whatever the
\* arguments, the first step prints {"error": "TOGETHER_API_KEY not set"} and
\* exits non-zero, and the import, the client construction and the upload call
\* never happen.
C1_KeyMissingFailsFast ==
    "TOGETHER_API_KEY" \notin DOMAIN environ =>
        /\ \A ev \in SdkEvents : ~Occurred(ev)
        /\ uploads = <<>>
        /\ pc # "l13" =>
              /\ pc = "exit15"
              /\ stdout = <<[error |-> KEY_NOT_SET]>>
              /\ ExitedNonZero

C1_Witness ==
    /\ "TOGETHER_API_KEY" \notin DOMAIN environ
    /\ "TOGETHER_NO_BANNER" \in DOMAIN environ
    /\ pc = "exit15"
    /\ ArgvLen >= 2
    /\ ~fs[argv[2]].exists

\* C2: when the key is set and sys.argv holds only the script name, the program
\* prints the usage error object and exits non-zero without checking any file
\* and without uploading.
C2_UsageError ==
    ("TOGETHER_API_KEY" \in DOMAIN environ /\ Len(argv) = 1) =>
        /\ ~Occurred("exists")
        /\ uploads = <<>>
        /\ pc \notin {"l13", "l17"} =>
              /\ pc = "exit19"
              /\ stdout = <<[error |-> USAGE]>>
              /\ ExitedNonZero

C2_Witness ==
    /\ "TOGETHER_API_KEY" \in DOMAIN environ
    /\ Len(argv) = 1
    /\ pc = "exit19"
    /\ Len(stdout) = 1

\* C3: the step that checks the file, taken with the key set and a path given
\* while nothing exists at that path, prints {"error": "File not found: <path>"}
\* for the path argument, exits non-zero, and no upload has been or is made.
C3_FileNotFound ==
    [][(pc = "l24" /\ pc' # "l24" /\ ~fs[argv[2]].exists) =>
          /\ pc' = "exit26"
          /\ stdout' = <<[error |-> FILE_NOT_FOUND \o argv[2]]>>
          /\ exit_status' # 0 /\ exit_status' # Running
          /\ uploads' = <<>>]_vars

C3_Witness ==
    /\ pc = "exit26"
    /\ filepath = <<"a", "/", "a">>
    /\ ~Occurred("upload")

\* C4: the upload call is made at most once, and only after the key check, the
\* argument check and the file check have passed in that order; after a failed
\* upload there is still one call.
C4_SingleUploadAfterChecks ==
    /\ Len(uploads) <= 1
    /\ Occurred("upload") <=> Len(uploads) = 1
    /\ Len(uploads) = 1 =>
          events = <<"key_ok", "argv_ok", "exists", "file_ok", "import", "client", "upload">>

C4_Witness ==
    /\ pc = "exit45"
    /\ Len(uploads) = 1
    /\ result = None

\* C5: every upload call receives the first argument as its path, and as its
\* purpose the second argument when there is one (the empty string included)
\* and "fine-tune" otherwise; later arguments play no part.
C5_UploadArguments ==
    \A i \in 1..Len(uploads) :
        /\ uploads[i].path = argv[2]
        /\ uploads[i].purpose = IF Len(argv) >= 3 THEN argv[3] ELSE FINE_TUNE

C5_Witness ==
    /\ Len(uploads) = 1
    /\ Len(argv) = 4
    /\ argv[3] = <<>>

\* C6: once the upload call has returned a result with an id, the program ends by printing
\* an object with the keys id, filename and bytes whose id is the returned one
\* and by exiting with status zero, even when the local file is removed after
\* the existence check.
C6_ReturnedResultIsReported ==
    (result # None /\ "id" \in DOMAIN result /\ Terminated) =>
        /\ Len(stdout) = 1
        /\ IsSuccessObject(stdout[1])
        /\ stdout[1].id = result.id
        /\ exit_status = 0

\* C7 as stated: every exception raised inside the try block ends in an error
\* object carrying the text of the exception and a non-zero exit status.
C7_EveryExceptionReported ==
    (exc # None /\ Terminated) =>
        /\ pc = "exit45"
        /\ stdout = <<[error |-> exc.text]>>
        /\ ExitedNonZero

\* C7: every exception that is an instance of Exception, raised by the import,
\* the client construction, the upload call or the building of the output,
\* ends in an error object carrying the text of that exception and a non-zero
\* exit status.
C7_ExceptionInstancesReported ==
    (exc # None /\ exc.cls = "Exception" /\ Terminated) =>
        /\ pc = "exit45"
        /\ stdout = <<[error |-> exc.text]>>
        /\ ExitedNonZero

C7_Witness ==
    /\ pc = "exit45"
    /\ exc # None
    /\ exc.cls = "Exception"
    /\ result # None
    /\ argv[2] = <<"a", "/", "a">>
    /\ exc.text = <<"[", "E", "r", "r", "n", "o", " ", "2", "0", "]", " ", "N", "o", "t", " ", "a", " ", "d", "i", "r", "e", "c", "t", "o", "r", "y", ":", " ", "'", "a", "/", "a", "'">>

\* The position of a line in the one path through the script
Rank(l) ==
    CASE l = "l13" -> 1
      [] l = "l17" -> 2
      [] l = "l21" -> 3
      [] l = "l24" -> 4
      [] l = "l30" -> 5
      [] l = "l32" -> 6
      [] l = "l33" -> 7
      [] l = "l35" -> 8
      [] l = "l35_in_call" -> 9
      [] l = "l37" -> 10
      [] l = "l42" -> 11
      [] l = "l44" -> 12
      [] OTHER -> 13

FiveOutcomes ==
    {"exit15", "exit19", "exit26", "exit45", "end"}

\* C8 as stated: a terminated execution is in one of the five outcomes key
\* missing, usage error, file not found, upload error, success.
C8_FiveOutcomes ==
    exit_status # Running => pc \in FiveOutcomes

\* C8: every execution in which the interpreter keeps running and the upload
\* call answers terminates; no line is run twice; it ends in one of six
\* outcomes: the five above, or an exception outside Exception leaving the try
\* block uncaught.
C8_TerminatesLinear ==
    /\ <>(exit_status # Running)
    /\ [](exit_status # Running <=> pc \in FiveOutcomes \cup {"uncaught"})
    /\ [][/\ pc' # pc => Rank(pc') > Rank(pc)
          /\ exit_status # Running => UNCHANGED vars]_vars

C8_Witness ==
    /\ pc = "uncaught"
    /\ exit_status = 0
    /\ Len(uploads) = 1

\* C9 as stated: every terminated execution has printed exactly one object,
\* with error or id but not both, and the status is zero exactly for the
\* success object.
C9_OneObjectAlways ==
    exit_status # Running =>
        /\ Len(stdout) = 1
        /\ ("error" \in DOMAIN stdout[1]) # ("id" \in DOMAIN stdout[1])
        /\ exit_status = 0 <=> "id" \in DOMAIN stdout[1]
        /\ exit_status # 0 <=> "error" \in DOMAIN stdout[1]

\* C9: every execution that terminates other than by an exception outside
\* Exception leaving the try block has printed exactly one object, with error
\* or id but not both, and the status is zero exactly for the success object.
C9_OneObjectUnlessUncaught ==
    (exit_status # Running /\ pc # "uncaught") =>
        /\ Len(stdout) = 1
        /\ ("error" \in DOMAIN stdout[1]) # ("id" \in DOMAIN stdout[1])
        /\ exit_status = 0 <=> "id" \in DOMAIN stdout[1]
        /\ exit_status # 0 <=> "error" \in DOMAIN stdout[1]

C9_Witness ==
    /\ pc = "end"
    /\ exit_status = 0
    /\ Len(stdout) = 1
    /\ "id" \in DOMAIN stdout[1]

\* b is the base name of p: the part of p after its last separator
IsBaseNameOf(b, p) ==
    /\ \A i \in 1..Len(b) : b[i] # "/"
    /\ \E k \in 0..Len(p) :
          /\ b = SubSeq(p, k + 1, Len(p))
          /\ k > 0 => p[k] = "/"

\* C10: the success object takes filename and bytes from the upload result
\* where the result has them, and otherwise the base name of the path argument
\* and the size of the local file; the object printed is the object built.
C10_ResultAttributesFirst ==
    [][/\ (pc = "l37" /\ pc' = "l42") =>
             /\ output'.id = result.id
             /\ IF "filename" \in DOMAIN result
                THEN output'.filename = result.filename
                ELSE IsBaseNameOf(output'.filename, argv[2])
             /\ IF "bytes" \in DOMAIN result
                THEN output'.bytes = result.bytes
                ELSE output'.bytes = fs[argv[2]].size
       /\ (pc = "l42" /\ pc' = "end") => stdout' = <<output>>]_vars

C10_Witness ==
    /\ pc = "end"
    /\ argv[2] = <<"a", "/", "a">>
    /\ "filename" \notin DOMAIN result
    /\ "bytes" \in DOMAIN result
    /\ stdout[1].filename = <<"a">>
    /\ stdout[1].bytes = RemoteBytes

====
